---- MODULE Spec2Model ----
(***************************************************************************)
(* Model of src/src/preprocess_data.py: the cleaning pipeline              *)
(* preprocess_data(df) and the __main__ driver around it.                  *)
(*                                                                         *)
(* A cell is a record [k, v, d].  k is the kind of the cell:               *)
(*   "nstr"  text that parses as the number v        (object column)       *)
(*   "dstr"  text in %m/%d/%Y format naming date v   (object column)       *)
(*   "iso"   text in ISO format naming date v        (written by to_csv)   *)
(*   "q"     the text "?"                                                  *)
(*   "txt"   any other text                                                *)
(*   "empty" an empty CSV token (only inside blobs)                        *)
(*   "nan"   NaN / NaT                                                     *)
(*   "num"   the float v / sqrt(d)                                         *)
(*   "date"  the datetime64 value of date v                                *)
(* Floats are kept exactly as v / sqrt(d): the medians, quantiles, means   *)
(* and standard deviations of the pipeline are then computed without       *)
(* rounding.  All cells of one numeric column carry the same d.            *)
(* A table is [cols |-> sequence of column names, rows |-> sequence of     *)
(* rows], a row being a sequence of cells aligned with cols.               *)
(***************************************************************************)
EXTENDS Integers, Sequences, FiniteSets, TLC

VARIABLES df, df_in, pc, numerical_cols, ci, stage6_in, rerun,
          blobs, faults, di, eighthr_data, onehr_data,
          cleaned_eighthr_data, cleaned_onehr_data, failed

vars == <<df, df_in, pc, numerical_cols, ci, stage6_in, rerun,
          blobs, faults, di, eighthr_data, onehr_data,
          cleaned_eighthr_data, cleaned_onehr_data, failed>>

pipeVars == <<df, df_in, pc, numerical_cols, ci, stage6_in, rerun>>

driverVars == <<blobs, faults, di, eighthr_data, onehr_data,
                cleaned_eighthr_data, cleaned_onehr_data, failed>>

(***************************************************************************)
(* Bounds of the model.                                                    *)
(***************************************************************************)
MaxRows == 2

MaxVal == 1

DateIds == {1, 2}

TallVals == {0, 1}

(***************************************************************************)
(* Cells.                                                                  *)
(***************************************************************************)
Cell(kind, val) == [k |-> kind, v |-> val, d |-> 1]

NaN == Cell("nan", 0)

IsNa(c) == c.k = "nan"

Range(s) == {s[i] : i \in DOMAIN s}

RECURSIVE SumSeq(_)
SumSeq(s) == IF s = <<>> THEN 0 ELSE Head(s) + SumSeq(Tail(s))

(***************************************************************************)
(* pd.read_csv (line 15) and DataFrame.to_csv (line 22).                   *)
(***************************************************************************)
ColumnParsesNumeric(t, j) ==
    \A i \in DOMAIN t.rows : t.rows[i][j].k \in {"nstr", "empty"}

DecodeCell(t, j, c) ==
    IF c.k = "empty" THEN NaN
    ELSE IF c.k = "nstr" /\ ColumnParsesNumeric(t, j) THEN Cell("num", c.v)
    ELSE c

read_csv(t) ==
    [t EXCEPT !.rows = [i \in DOMAIN t.rows |->
                          [j \in DOMAIN t.rows[i] |-> DecodeCell(t, j, t.rows[i][j])]]]

EncodeCell(name, c) ==
    IF c.k = "nan" THEN Cell("empty", 0)
    ELSE IF c.k = "num" THEN [c EXCEPT !.k = "nstr"]
    ELSE IF c.k = "date" THEN [c EXCEPT !.k = "iso"]
    ELSE c

to_csv(t) ==
    [t EXCEPT !.rows = [i \in DOMAIN t.rows |->
                          [j \in DOMAIN t.rows[i] |-> EncodeCell(t.cols[j], t.rows[i][j])]]]

(***************************************************************************)
(* Stage 1 (line 42): df.replace('?', np.nan).                             *)
(***************************************************************************)
ReplaceCell(name, c) == IF c.k = "q" THEN NaN ELSE c

ReplaceQ(t) ==
    [t EXCEPT !.rows = [i \in DOMAIN t.rows |->
                          [j \in DOMAIN t.rows[i] |-> ReplaceCell(t.cols[j], t.rows[i][j])]]]

(***************************************************************************)
(* Stage 2 (lines 46-48): pd.to_numeric(errors='coerce') on every column   *)
(* but Date.                                                               *)
(***************************************************************************)
to_numeric(c) ==
    IF c.k = "num" THEN c
    ELSE IF c.k = "nstr" THEN [c EXCEPT !.k = "num"]
    ELSE NaN

CoerceCell(name, c) == IF name # "Date" THEN to_numeric(c) ELSE c

CoerceColumns(t) ==
    [t EXCEPT !.rows = [i \in DOMAIN t.rows |->
                          [j \in DOMAIN t.rows[i] |-> CoerceCell(t.cols[j], t.rows[i][j])]]]

(***************************************************************************)
(* Stage 3 (line 52): pd.to_datetime(format='%m/%d/%Y', errors='coerce')   *)
(* on the Date column.  A value that already is a datetime stays.          *)
(***************************************************************************)
to_datetime_reparse(c) ==
    IF c.k = "dstr" THEN Cell("date", c.v) ELSE NaN

to_datetime(c) ==
    IF c.k = "date" THEN c
    ELSE IF c.k = "dstr" THEN Cell("date", c.v)
    ELSE NaN

DateCell(name, c) == IF name = "Date" THEN to_datetime(c) ELSE c

ParseDates(t) ==
    [t EXCEPT !.rows = [i \in DOMAIN t.rows |->
                          [j \in DOMAIN t.rows[i] |-> DateCell(t.cols[j], t.rows[i][j])]]]

(***************************************************************************)
(* Stage 4 (line 56): df.dropna(thresh=len(df.columns) * 0.5) keeps the    *)
(* rows whose count of non-NA cells is >= the threshold, a float.          *)
(***************************************************************************)
CountPresent(row) == Cardinality({j \in DOMAIN row : ~IsNa(row[j])})

ThreshFloor(nCols, count) == count >= nCols \div 2

Thresh(nCols, count) == 2 * count >= nCols

DropSparse(t) ==
    [t EXCEPT !.rows = SelectSeq(t.rows,
                          LAMBDA row : Thresh(Len(t.cols), CountPresent(row)))]

(***************************************************************************)
(* Line 59: df.select_dtypes(include=np.number).columns.  After stage 2    *)
(* every column but Date is float64 and Date is datetime64.                *)
(***************************************************************************)
SelectNumber(t) ==
    SelectSeq([j \in DOMAIN t.cols |-> j], LAMBDA j : t.cols[j] # "Date")

(***************************************************************************)
(* Order statistics of a column.                                           *)
(***************************************************************************)
ColumnCells(t, j) == [i \in DOMAIN t.rows |-> t.rows[i][j]]

PresentVals(t, j) ==
    LET cells == SelectSeq(ColumnCells(t, j), LAMBDA c : ~IsNa(c))
    IN  [i \in DOMAIN cells |-> cells[i].v]

\* the i-th smallest element of xs, i in 1..Len(xs)
Nth(xs, i) ==
    CHOOSE x \in Range(xs) :
        /\ Cardinality({p \in DOMAIN xs : xs[p] < x}) < i
        /\ Cardinality({p \in DOMAIN xs : xs[p] <= x}) >= i

(***************************************************************************)
(* Stage 5 (lines 59-61): df[col].fillna(df[col].median()) for every       *)
(* numeric column.  The median skips NaN and is the mean of the two middle *)
(* values; it is NaN when the column holds no value, and fillna(NaN)       *)
(* changes nothing.  Median2 is twice the median, so the column is         *)
(* re-expressed in halves: v / sqrt(d) = 2v / sqrt(4d).                    *)
(***************************************************************************)
Median2Lower(xs) == 2 * Nth(xs, (Len(xs) + 1) \div 2)

Median2(xs) == Nth(xs, (Len(xs) + 1) \div 2) + Nth(xs, Len(xs) \div 2 + 1)

Halves(c) == [c EXCEPT !.v = 2 * @, !.d = 4 * @]

ColD(t, j) ==
    LET cells == SelectSeq(ColumnCells(t, j), LAMBDA c : ~IsNa(c))
    IN  cells[1].d

FillCell(t, j, c) ==
    IF ~IsNa(c) THEN Halves(c)
    ELSE IF PresentVals(t, j) = <<>> THEN c
    ELSE [k |-> "num", v |-> Median2(PresentVals(t, j)), d |-> 4 * ColD(t, j)]

ImputeDropna(t, ncols) ==
    [t EXCEPT !.rows = SelectSeq([i \in DOMAIN t.rows |->
                                    [j \in DOMAIN t.rows[i] |->
                                       IF j \in Range(ncols) /\ ~IsNa(t.rows[i][j])
                                       THEN Halves(t.rows[i][j]) ELSE t.rows[i][j]]],
                                 LAMBDA row : \A j \in Range(ncols) : ~IsNa(row[j]))]

Impute(t, ncols) ==
    [t EXCEPT !.rows = [i \in DOMAIN t.rows |->
                          [j \in DOMAIN t.rows[i] |->
                             IF j \in Range(ncols)
                             THEN FillCell(t, j, t.rows[i][j])
                             ELSE t.rows[i][j]]]]

(***************************************************************************)
(* Stage 6 (lines 65-71): per numeric column, in order, Series.quantile    *)
(* (linear interpolation at position (n-1)q, NaN skipped) and the IQR      *)
(* filter on the frame as it stands.  Quantile4 is four times the          *)
(* quantile k/4; the bounds are compared multiplied by 8.                  *)
(***************************************************************************)
Quantile4(xs, k) ==
    LET p == k * (Len(xs) - 1)
        i == p \div 4
        r == p % 4
    IN  IF r = 0 THEN 4 * Nth(xs, i + 1)
        ELSE 4 * Nth(xs, i + 1) + r * (Nth(xs, i + 2) - Nth(xs, i + 1))

lower_bound8(xs) == 5 * Quantile4(xs, 1) - 3 * Quantile4(xs, 3)

upper_bound8(xs) == 5 * Quantile4(xs, 3) - 3 * Quantile4(xs, 1)

\* the comparisons of line 71; any comparison with NaN is False
Keep(xs, c) ==
    /\ ~IsNa(c)
    /\ xs # <<>>
    /\ 8 * c.v >= lower_bound8(xs)
    /\ 8 * c.v <= upper_bound8(xs)

QuantileFrameSnapshot(cur, snap) == snap

\* the frame lines 66-67 read: df, which line 71 rebinds on every iteration
QuantileFrame(cur, snap) == cur

TrimCol(t, snap, j) ==
    [t EXCEPT !.rows = SelectSeq(t.rows,
         LAMBDA row : Keep(PresentVals(QuantileFrame(t, snap), j), row[j]))]

RECURSIVE TrimFrom(_, _, _, _)
TrimFrom(t, snap, ncols, n) ==
    IF n > Len(ncols) THEN t
    ELSE TrimFrom(TrimCol(t, snap, ncols[n]), snap, ncols, n + 1)

Trim(t, ncols) == TrimFrom(t, t, ncols, 1)

(***************************************************************************)
(* Stage 7 (lines 75-76): StandardScaler().fit_transform.  It raises       *)
(* ValueError on a frame with no row or no column; it divides by the       *)
(* population standard deviation, and by 1 where that is 0.                *)
(* With n rows, S the sum and Q the sum of squares of the v of a column,   *)
(* (x - mean) / std = (n v - S) / sqrt(n Q - S^2), whatever d was.         *)
(***************************************************************************)
ScalerRaises(t, ncols) == Len(t.rows) = 0 \/ Len(ncols) = 0

ColSum(t, j) == SumSeq([i \in DOMAIN t.rows |-> t.rows[i][j].v])

ColSumSq(t, j) == SumSeq([i \in DOMAIN t.rows |-> t.rows[i][j].v * t.rows[i][j].v])

VarNum(t, j) == Len(t.rows) * ColSumSq(t, j) - ColSum(t, j) * ColSum(t, j)

ScaleCell(t, j, c) ==
    IF VarNum(t, j) = 0 THEN [k |-> "num", v |-> 0, d |-> 1]
    ELSE [k |-> "num", v |-> Len(t.rows) * c.v - ColSum(t, j), d |-> VarNum(t, j)]

StandardizeSample(t, ncols) ==
    [t EXCEPT !.rows = [i \in DOMAIN t.rows |->
                          [j \in DOMAIN t.rows[i] |->
                             IF j \in Range(ncols)
                             THEN IF VarNum(t, j) = 0 \/ Len(t.rows) = 1
                                  THEN [k |-> "num", v |-> 0, d |-> 1]
                                  ELSE [k |-> "num",
                                        v |-> (Len(t.rows) - 1) * (Len(t.rows) * t.rows[i][j].v - ColSum(t, j)),
                                        d |-> (Len(t.rows) - 1) * Len(t.rows) * VarNum(t, j)]
                             ELSE t.rows[i][j]]]]

Standardize(t, ncols) ==
    [t EXCEPT !.rows = [i \in DOMAIN t.rows |->
                          [j \in DOMAIN t.rows[i] |->
                             IF j \in Range(ncols)
                             THEN ScaleCell(t, j, t.rows[i][j])
                             ELSE t.rows[i][j]]]]

(***************************************************************************)
(* Stage 8 (line 79): df.drop_duplicates() keeps the first of the rows     *)
(* that are equal in every column (NaN equal to NaN).                      *)
(***************************************************************************)
RECURSIVE KeepFirst(_, _)
KeepFirst(rows, seen) ==
    IF rows = <<>> THEN <<>>
    ELSE IF Head(rows) \in seen THEN KeepFirst(Tail(rows), seen)
    ELSE <<Head(rows)>> \o KeepFirst(Tail(rows), seen \cup {Head(rows)})

RECURSIVE KeepLast(_)
KeepLast(rows) ==
    IF rows = <<>> THEN <<>>
    ELSE IF Head(rows) \in Range(Tail(rows)) THEN KeepLast(Tail(rows))
    ELSE <<Head(rows)>> \o KeepLast(Tail(rows))

DropDuplicatesLast(t) == [t EXCEPT !.rows = KeepLast(t.rows)]

DropDuplicates(t) == [t EXCEPT !.rows = KeepFirst(t.rows, {})]

(***************************************************************************)
(* preprocess_data as a function (lines 25-91), for its callers.           *)
(***************************************************************************)
Parsed(t) == ParseDates(CoerceColumns(ReplaceQ(t)))

Trimmed(t) ==
    LET s4 == DropSparse(Parsed(t))
    IN  Trim(Impute(s4, SelectNumber(s4)), SelectNumber(s4))

preprocess_raises(t) == ScalerRaises(Trimmed(t), SelectNumber(t))

preprocess_data(t) == DropDuplicates(Standardize(Trimmed(t), SelectNumber(t)))

(***************************************************************************)
(* The CSV files the model reads: the tokens of a Date column and of a     *)
(* measurement column, and the tables built from them.                     *)
(***************************************************************************)
DateTokens == {Cell("dstr", i) : i \in DateIds} \cup {Cell("q", 0), Cell("txt", 0)}

NumTokens ==
    {Cell("nstr", x) : x \in 0..MaxVal} \cup {Cell("q", 0), Cell("txt", 0), Cell("empty", 0)}

Rows2 == {<<a, x>> : a \in DateTokens, x \in NumTokens}

Rows3 == {<<a, x, y>> : a \in DateTokens, x \in NumTokens, y \in NumTokens}

RowsTall ==
    {<<Cell("dstr", 1), Cell("nstr", x), Cell("nstr", y)>> : x \in 0..MaxVal, y \in TallVals}

SeqsOf(S, n) == UNION {[1..m -> S] : m \in 1..n}

Dirty2 == {[cols |-> <<"Date", "X">>, rows |-> r] : r \in SeqsOf(Rows2, MaxRows)}

Dirty3 == {[cols |-> <<"Date", "X", "Y">>, rows |-> <<r>>] : r \in Rows3}

GappyRows ==
    {<<Cell("q", 0), x, Cell("q", 0)>> : x \in NumTokens \ {Cell("txt", 0), Cell("empty", 0)}}
        \cup {<<Cell("dstr", 1), x, Cell("nstr", 0)>> : x \in NumTokens \ {Cell("txt", 0), Cell("empty", 0)}}

Gappy == {[cols |-> <<"Date", "X", "Y">>, rows |-> r] : r \in [1..(MaxRows + 1) -> GappyRows]}

Tall == {[cols |-> <<"Date", "X", "Y">>, rows |-> r] : r \in [1..(MaxRows + 2) -> RowsTall]}

\* rows {Date 1/1/2020, X ?, Y 5} and {Date 1/2/2020, X 3, Y 5}
LiteralImpute ==
    [cols |-> <<"Date", "X", "Y">>,
     rows |-> << <<Cell("dstr", 1), Cell("q", 0), Cell("nstr", 5)>>,
                 <<Cell("dstr", 2), Cell("nstr", 3), Cell("nstr", 5)>> >>]

\* a column with the values 1, 2, 3, 4, 100
LiteralOutlier ==
    [cols |-> <<"Date", "X">>,
     rows |-> [i \in 1..5 |-> <<Cell("dstr", 1),
                                Cell("nstr", <<1, 2, 3, 4, 100>>[i])>>]]

\* a file whose cleaned table has a cell outside the IQR bounds of its
\* column: dropping the duplicate row moves the quartiles of Y
LiteralRerun ==
    [cols |-> <<"Date", "X", "Y">>,
     rows |-> [i \in 1..5 |-> <<Cell("dstr", 1),
                                Cell("nstr", <<0, 0, 0, 1, 2>>[i]),
                                Cell("nstr", <<0, 0, 1, 1, 1>>[i])>>]]

CsvFiles ==
    Dirty2 \cup Dirty3 \cup Gappy \cup Tall \cup {LiteralImpute, LiteralOutlier, LiteralRerun}

None == [cols |-> <<>>, rows |-> <<>>]

(***************************************************************************)
(* preprocess_data(df), one action per stage.                              *)
(***************************************************************************)
DriverIdle ==
    /\ blobs = <<>>
    /\ faults = {}
    /\ di = 0
    /\ eighthr_data = None
    /\ onehr_data = None
    /\ cleaned_eighthr_data = None
    /\ cleaned_onehr_data = None
    /\ failed = ""

Init ==
    /\ df_in \in {read_csv(f) : f \in CsvFiles}
    /\ df = df_in
    /\ pc = "s1"
    /\ numerical_cols = <<>>
    /\ ci = 0
    /\ stage6_in = None
    /\ rerun = FALSE
    /\ DriverIdle

Stage1 ==
    /\ pc = "s1"
    /\ df' = ReplaceQ(df)
    /\ pc' = "s2"
    /\ UNCHANGED <<df_in, numerical_cols, ci, stage6_in, rerun, driverVars>>

Stage2 ==
    /\ pc = "s2"
    /\ df' = CoerceColumns(df)
    /\ pc' = "s3"
    /\ UNCHANGED <<df_in, numerical_cols, ci, stage6_in, rerun, driverVars>>

Stage3 ==
    /\ pc = "s3"
    /\ df' = ParseDates(df)
    /\ pc' = "s4"
    /\ UNCHANGED <<df_in, numerical_cols, ci, stage6_in, rerun, driverVars>>

Stage4 ==
    /\ pc = "s4"
    /\ df' = DropSparse(df)
    /\ pc' = "s5"
    /\ UNCHANGED <<df_in, numerical_cols, ci, stage6_in, rerun, driverVars>>

Stage5 ==
    /\ pc = "s5"
    /\ numerical_cols' = SelectNumber(df)
    /\ df' = Impute(df, numerical_cols')
    /\ stage6_in' = df'
    /\ ci' = 1
    /\ pc' = "s6"
    /\ UNCHANGED <<df_in, rerun, driverVars>>

Stage6Col ==
    /\ pc = "s6"
    /\ ci <= Len(numerical_cols)
    /\ df' = TrimCol(df, stage6_in, numerical_cols[ci])
    /\ ci' = ci + 1
    /\ pc' = IF ci = Len(numerical_cols) THEN "s7" ELSE "s6"
    /\ UNCHANGED <<df_in, numerical_cols, stage6_in, rerun, driverVars>>

Stage7 ==
    /\ pc = "s7"
    /\ ~ScalerRaises(df, numerical_cols)
    /\ df' = Standardize(df, numerical_cols)
    /\ pc' = "s8"
    /\ UNCHANGED <<df_in, numerical_cols, ci, stage6_in, rerun, driverVars>>

Stage7Raise ==
    /\ pc = "s7"
    /\ ScalerRaises(df, numerical_cols)
    /\ pc' = "raised"
    /\ UNCHANGED <<df, df_in, numerical_cols, ci, stage6_in, rerun, driverVars>>

Stage8 ==
    /\ pc = "s8"
    /\ df' = DropDuplicates(df)
    /\ pc' = "done"
    /\ UNCHANGED <<df_in, numerical_cols, ci, stage6_in, rerun, driverVars>>

\* the caller hands the returned frame to preprocess_data once more
Rerun ==
    /\ pc = "done"
    /\ ~rerun
    /\ rerun' = TRUE
    /\ df_in' = df
    /\ pc' = "s1"
    /\ numerical_cols' = <<>>
    /\ ci' = 0
    /\ stage6_in' = None
    /\ UNCHANGED <<df, driverVars>>

Next ==
    \/ Stage1
    \/ Stage2
    \/ Stage3
    \/ Stage4
    \/ Stage5
    \/ Stage6Col
    \/ Stage7
    \/ Stage7Raise
    \/ Stage8
    \/ Rerun

Spec == Init /\ [][Next]_vars

(***************************************************************************)
(* The driver (lines 93-106).  Each statement is one step; an exception    *)
(* (a missing blob or a failing request of the blob store, a ValueError of *)
(* preprocess_data) is caught nowhere and ends the process.  faults is the *)
(* set of blob-store requests that fail in this run.                       *)
(***************************************************************************)
RawEighthr == "data/raw/eighthr_data.csv"

RawOnehr == "data/raw/onehr_data.csv"

CleanedEighthr == "data/processed/cleaned_eighthr_data.csv"

CleanedOnehr == "data/processed/cleaned_onehr_data.csv"

BlobNames == {RawEighthr, RawOnehr, CleanedEighthr, CleanedOnehr}

DriverOrderIsolated ==
    <<"download_eighthr", "preprocess_eighthr", "upload_eighthr",
      "download_onehr", "preprocess_onehr", "upload_onehr">>

DriverOrder ==
    <<"download_eighthr", "download_onehr", "preprocess_eighthr",
      "preprocess_onehr", "upload_eighthr", "upload_onehr">>

AtStep(step) == failed = "" /\ di \in DOMAIN DriverOrder /\ DriverOrder[di] = step

DriverFiles == {[cols |-> <<"Date", "X">>, rows |-> <<r>>] : r \in Rows2}

PipeIdle ==
    /\ df = None
    /\ df_in = None
    /\ pc = "idle"
    /\ numerical_cols = <<>>
    /\ ci = 0
    /\ stage6_in = None
    /\ rerun = FALSE

InitDriver ==
    /\ blobs \in [BlobNames -> DriverFiles \cup {None}]
    /\ blobs[CleanedEighthr] = None
    /\ blobs[CleanedOnehr] = None
    /\ faults \in SUBSET {"download_eighthr", "download_onehr", "upload_eighthr", "upload_onehr"}
    /\ di = 1
    /\ eighthr_data = None
    /\ onehr_data = None
    /\ cleaned_eighthr_data = None
    /\ cleaned_onehr_data = None
    /\ failed = ""
    /\ PipeIdle

DownloadEighthr ==
    /\ AtStep("download_eighthr")
    /\ IF blobs[RawEighthr] = None \/ "download_eighthr" \in faults
       THEN failed' = "download_eighthr" /\ UNCHANGED <<eighthr_data, di>>
       ELSE eighthr_data' = read_csv(blobs[RawEighthr]) /\ di' = di + 1 /\ UNCHANGED failed
    /\ UNCHANGED <<blobs, faults, onehr_data, cleaned_eighthr_data, cleaned_onehr_data, pipeVars>>

DownloadOnehr ==
    /\ AtStep("download_onehr")
    /\ IF blobs[RawOnehr] = None \/ "download_onehr" \in faults
       THEN failed' = "download_onehr" /\ UNCHANGED <<onehr_data, di>>
       ELSE onehr_data' = read_csv(blobs[RawOnehr]) /\ di' = di + 1 /\ UNCHANGED failed
    /\ UNCHANGED <<blobs, faults, eighthr_data, cleaned_eighthr_data, cleaned_onehr_data, pipeVars>>

PreprocessEighthr ==
    /\ AtStep("preprocess_eighthr")
    /\ IF preprocess_raises(eighthr_data)
       THEN failed' = "preprocess_eighthr" /\ UNCHANGED <<cleaned_eighthr_data, di>>
       ELSE /\ cleaned_eighthr_data' = preprocess_data(eighthr_data)
            /\ di' = di + 1
            /\ UNCHANGED failed
    /\ UNCHANGED <<blobs, faults, eighthr_data, onehr_data, cleaned_onehr_data, pipeVars>>

PreprocessOnehr ==
    /\ AtStep("preprocess_onehr")
    /\ IF preprocess_raises(onehr_data)
       THEN failed' = "preprocess_onehr" /\ UNCHANGED <<cleaned_onehr_data, di>>
       ELSE /\ cleaned_onehr_data' = preprocess_data(onehr_data)
            /\ di' = di + 1
            /\ UNCHANGED failed
    /\ UNCHANGED <<blobs, faults, eighthr_data, onehr_data, cleaned_eighthr_data, pipeVars>>

UploadEighthr ==
    /\ AtStep("upload_eighthr")
    /\ IF "upload_eighthr" \in faults
       THEN failed' = "upload_eighthr" /\ UNCHANGED <<blobs, di>>
       ELSE /\ blobs' = [blobs EXCEPT ![CleanedEighthr] = to_csv(cleaned_eighthr_data)]
            /\ di' = di + 1
            /\ UNCHANGED failed
    /\ UNCHANGED <<faults, eighthr_data, onehr_data, cleaned_eighthr_data,
                   cleaned_onehr_data, pipeVars>>

UploadOnehr ==
    /\ AtStep("upload_onehr")
    /\ IF "upload_onehr" \in faults
       THEN failed' = "upload_onehr" /\ UNCHANGED <<blobs, di>>
       ELSE /\ blobs' = [blobs EXCEPT ![CleanedOnehr] = to_csv(cleaned_onehr_data)]
            /\ di' = di + 1
            /\ UNCHANGED failed
    /\ UNCHANGED <<faults, eighthr_data, onehr_data, cleaned_eighthr_data,
                   cleaned_onehr_data, pipeVars>>

NextDriver ==
    \/ DownloadEighthr
    \/ DownloadOnehr
    \/ PreprocessEighthr
    \/ PreprocessOnehr
    \/ UploadEighthr
    \/ UploadOnehr

SpecDriver == InitDriver /\ [][NextDriver]_vars

(***************************************************************************)
(* Properties of preprocess_data.                                          *)
(***************************************************************************)
NumericCols(t) == {j \in DOMAIN t.cols : t.cols[j] # "Date"}

MissingCount(row) == Cardinality({j \in DOMAIN row : row[j].k = "nan"})

\* C1: preprocess_data never raises: whatever the input table, it runs
\* every stage and returns.
C1_NeverRaises == pc # "raised"

\* C2: after the median imputation of stage 5 no numeric column holds a
\* missing value, also when every cell of the column was missing.
C2_NoMissingAfterImpute ==
    (pc = "s6" /\ ci = 1) =>
        \A i \in DOMAIN df.rows : \A j \in NumericCols(df) : df.rows[i][j].k # "nan"

\* C3: stage 4 drops a row exactly when more than half of its cells (Date
\* included) are missing, that is, it keeps exactly the rows with at least
\* ceil(0.5 * columnCount) present cells.
C3_SparseRows ==
    [][pc = "s4" =>
        LET n == Len(df.cols)
        IN  /\ df'.rows = SelectSeq(df.rows, LAMBDA row : ~(2 * MissingCount(row) > n))
            /\ df'.rows = SelectSeq(df.rows,
                             LAMBDA row : n - MissingCount(row) >= (n + 1) \div 2)]_vars

C3_Witness ==
    /\ pc = "s5"
    /\ Len(df.cols) = 3
    /\ \E i \in DOMAIN df.rows : MissingCount(df.rows[i]) = 1

\* the inclusive bounds [Q1 - 1.5 IQR, Q3 + 1.5 IQR], multiplied by 8
C4_Within(xs, c) ==
    /\ c.k = "num"
    /\ xs # <<>>
    /\ 2 * (4 * c.v) >= 2 * Quantile4(xs, 1) - 3 * (Quantile4(xs, 3) - Quantile4(xs, 1))
    /\ 2 * (4 * c.v) <= 2 * Quantile4(xs, 3) + 3 * (Quantile4(xs, 3) - Quantile4(xs, 1))

\* C4: stage 6 takes the numeric columns in order; for each it computes Q1
\* and Q3 over the rows left by the trims of the earlier columns and drops
\* exactly the rows outside [Q1 - 1.5 IQR, Q3 + 1.5 IQR].  For the column
\* 1, 2, 3, 4, 100 that is Q1 = 2, Q3 = 4, bounds [-1, 7], and only the row
\* with 100 goes.  (Stage 5 left the column in halves.)
C4_SequentialTrim ==
    [][pc = "s6" =>
        LET j == numerical_cols[ci]
            xs == PresentVals(df, j)
        IN  /\ j = SelectNumber(df)[ci]
            /\ df'.rows = SelectSeq(df.rows, LAMBDA row : C4_Within(xs, row[j]))
            /\ xs = <<2, 4, 6, 8, 200>> =>
                  /\ Quantile4(xs, 1) = 4 * (2 * 2)
                  /\ Quantile4(xs, 3) = 4 * (2 * 4)
                  /\ lower_bound8(xs) = 8 * (2 * (-1))
                  /\ upper_bound8(xs) = 8 * (2 * 7)
                  /\ df'.rows = SelectSeq(df.rows, LAMBDA row : row[j].v # 200)
                  /\ Len(df'.rows) = 4]_vars

\* the second column is about to be trimmed, the first column's trim has
\* removed a row, and the bounds over the remaining rows keep other rows
\* than the bounds over the rows as they were before the stage
C4_Witness ==
    /\ pc = "s6"
    /\ ci = 2
    /\ Len(df.rows) < Len(stage6_in.rows)
    /\ \E i \in DOMAIN df.rows :
          C4_Within(PresentVals(df, numerical_cols[2]), df.rows[i][numerical_cols[2]])
            # C4_Within(PresentVals(stage6_in, numerical_cols[2]), df.rows[i][numerical_cols[2]])

\* C5: stage 5 replaces each missing cell of a numeric column by the median
\* of the present values of that column over the rows left by stage 4, and
\* leaves present cells (and the Date column) as they are.  In the literal
\* table both rows survive stage 4 and X of row 1 becomes 3.
C5_MedianImpute ==
    [][pc = "s5" =>
        /\ Len(df'.rows) = Len(df.rows)
        /\ \A i \in DOMAIN df.rows : \A j \in DOMAIN df.cols :
              LET c == df.rows[i][j]
                  xs == PresentVals(df, j)
                  n == Len(xs)
              IN  IF j \notin NumericCols(df) THEN df'.rows[i][j] = c
                  ELSE IF c.k # "nan" THEN df'.rows[i][j] = Halves(c)
                  ELSE IF n = 0 THEN df'.rows[i][j] = c
                  ELSE /\ df'.rows[i][j].k = "num"
                       /\ df'.rows[i][j].d = 4 * ColD(df, j)
                       /\ df'.rows[i][j].v = Nth(xs, (n + 1) \div 2) + Nth(xs, (n + 2) \div 2)
        /\ df_in = read_csv(LiteralImpute) =>
              /\ Len(df.rows) = 2
              /\ df'.rows[1][2] = [k |-> "num", v |-> 2 * 3, d |-> 4]
              /\ df'.rows[2][2] = [k |-> "num", v |-> 2 * 3, d |-> 4]]_vars

\* stage 4 dropped a row whose X was present (1), and the missing X of the
\* first remaining row got the median of the remaining X alone (0)
C5_Witness ==
    /\ pc = "s6"
    /\ ci = 1
    /\ ~rerun
    /\ Len(df_in.rows) = 3
    /\ df_in.rows[1] = <<Cell("q", 0), Cell("nstr", 1), Cell("q", 0)>>
    /\ df_in.rows[2][2] = Cell("q", 0)
    /\ Len(df.rows) = 2
    /\ df.rows[1][2] = [k |-> "num", v |-> 0, d |-> 4]

\* the positions of the rows that equal no earlier row
C7_FirstIdx(rows) == {i \in DOMAIN rows : \A h \in 1..(i - 1) : rows[h] # rows[i]}

\* C7: stage 8 drops exactly the rows equal in every column to an earlier
\* row, so the returned table has no two identical rows.
C7_NoDuplicates ==
    /\ [](pc = "done" =>
            \A i, h \in DOMAIN df.rows : i # h => df.rows[i] # df.rows[h])
    /\ [][pc = "s8" =>
            LET I == C7_FirstIdx(df.rows)
            IN  /\ Len(df'.rows) = Cardinality(I)
                /\ \A i \in I :
                      df'.rows[Cardinality({h \in I : h <= i})] = df.rows[i]]_vars

C7_Witness ==
    /\ pc = "done"
    /\ ~rerun
    /\ Len(df.rows) >= 2
    /\ Len(df.rows) < Len(Trim(stage6_in, numerical_cols).rows)

\* no cell of t lies outside the IQR bounds of its column over all of t
C8_NoOutliers(t) ==
    \A j \in NumericCols(t) : \A i \in DOMAIN t.rows :
        C4_Within(PresentVals(t, j), t.rows[i][j])

C8_NoDup(t) == \A i, h \in DOMAIN t.rows : i # h => t.rows[i] # t.rows[h]

\* C8: preprocess_data run again on a table it returned does not reduce the
\* row count, if no cell of that table lies outside the IQR bounds of its
\* column and no duplicate rows remain: the second run drops nothing.
C8_RerunKeepsRows ==
    (rerun /\ C8_NoOutliers(df_in) /\ C8_NoDup(df_in)) =>
        /\ pc # "raised"
        /\ Len(df.rows) = Len(df_in.rows)

C8_Witness ==
    /\ rerun
    /\ pc = "done"
    /\ C8_NoOutliers(df_in)
    /\ Len(df_in.rows) >= 3
    /\ \E j \in NumericCols(df) : df.rows[1][j].d > 1

\* C9: after stage 7 every numeric column that had nonzero variance over
\* the rows left by stage 6 has mean 0 and population standard deviation 1.
C9_Standardized ==
    [][pc = "s7" /\ pc' = "s8" =>
        \A j \in NumericCols(df) :
            (\E i, h \in DOMAIN df.rows : df.rows[i][j] # df.rows[h][j]) =>
                /\ \A i \in DOMAIN df'.rows :
                      /\ df'.rows[i][j].k = "num"
                      /\ df'.rows[i][j].d = df'.rows[1][j].d
                /\ SumSeq([i \in DOMAIN df'.rows |-> df'.rows[i][j].v]) = 0
                /\ SumSeq([i \in DOMAIN df'.rows |-> df'.rows[i][j].v * df'.rows[i][j].v])
                      = Len(df'.rows) * df'.rows[1][j].d]_vars

C9_Witness ==
    /\ pc = "s8"
    /\ Len(df.rows) >= 3
    /\ \A j \in NumericCols(df) : df.rows[1][j].d > 1

\* C10: the returned table has at most as many rows as the input; no stage
\* adds rows and only stages 4, 6 and 8 remove any.
C10_RowCount ==
    /\ [](pc = "done" => Len(df.rows) <= Len(df_in.rows))
    /\ [][/\ Len(df'.rows) <= Len(df.rows)
          /\ Len(df'.rows) < Len(df.rows) => pc \in {"s4", "s6", "s8"}]_vars

C10_Witness ==
    /\ pc = "done"
    /\ ~rerun
    /\ Len(df.rows) >= 1
    /\ Len(df.rows) < Len(Trim(stage6_in, numerical_cols).rows)
    /\ Len(stage6_in.rows) < Len(df_in.rows)

(***************************************************************************)
(* Properties of the driver.                                               *)
(***************************************************************************)
Ended == failed # "" \/ di > Len(DriverOrder)

\* what a dataset's own three steps would do in this run
OwnStepsSucceed(raw, down, up) ==
    /\ blobs[raw] # None
    /\ down \notin faults
    /\ ~preprocess_raises(read_csv(blobs[raw]))
    /\ up \notin faults

\* C6: the two datasets are processed in isolation: a failure for one
\* dataset aborts that dataset only, and the other dataset's cleaned output
\* is stored whenever its own fetch, clean and store succeed.
C6_Isolation ==
    Ended =>
        /\ OwnStepsSucceed(RawEighthr, "download_eighthr", "upload_eighthr")
              => blobs[CleanedEighthr] # None
        /\ OwnStepsSucceed(RawOnehr, "download_onehr", "upload_onehr")
              => blobs[CleanedOnehr] # None

\* C6 as amended: the first failing step ends the whole run.  The cleaned
\* eighthr table is stored exactly when both downloads, both preprocess
\* calls and its own upload succeed; the cleaned onehr table exactly when
\* the upload of eighthr and its own upload succeed as well.  What is stored
\* is the encoding of preprocess_data of that dataset alone.
C6_WholeRunAborts ==
    Ended =>
        LET eOk == OwnStepsSucceed(RawEighthr, "download_eighthr", "upload_eighthr")
            oOk == OwnStepsSucceed(RawOnehr, "download_onehr", "upload_onehr")
            bothClean == /\ blobs[RawEighthr] # None
                         /\ blobs[RawOnehr] # None
                         /\ {"download_eighthr", "download_onehr"} \cap faults = {}
                         /\ ~preprocess_raises(read_csv(blobs[RawEighthr]))
                         /\ ~preprocess_raises(read_csv(blobs[RawOnehr]))
        IN  /\ blobs[CleanedEighthr] # None <=> (bothClean /\ "upload_eighthr" \notin faults)
            /\ blobs[CleanedOnehr] # None <=> (bothClean /\ eOk /\ oOk)
            /\ blobs[CleanedEighthr] # None =>
                  blobs[CleanedEighthr] = to_csv(preprocess_data(read_csv(blobs[RawEighthr])))
            /\ blobs[CleanedOnehr] # None =>
                  blobs[CleanedOnehr] = to_csv(preprocess_data(read_csv(blobs[RawOnehr])))

\* the upload of onehr failed after the cleaned eighthr table was stored
C6_Witness ==
    /\ failed = "upload_onehr"
    /\ blobs[CleanedEighthr] # None
    /\ blobs[CleanedOnehr] = None

====
